---- MODULE Spec2Model ----
(***************************************************************************)
(* Model of detectron2/modeling/roi_heads/mask_head.py:                    *)
(*   mask_rcnn_inference, BaseMaskRCNNHead.mask_rcnn_loss,                  *)
(*   bb_intersection_over_union and quad.                                  *)
(*                                                                         *)
(* Tensors are modelled by their shape and, where the code computes on     *)
(* them, by their values: a mask_side_len x mask_side_len grid is a        *)
(* function from Pix(S) to numbers, a batch axis is a sequence.  Boxes are *)
(* tuples <<x1, y1, x2, y2>> of integers (exactly representable floats).   *)
(* The rasters returned by crop_and_resize are inputs of the call.         *)
(***************************************************************************)
EXTENDS Integers, Sequences, FiniteSets, TLC

VARIABLES
    pc,                 \* position of the running call
    pred_mask_logits,   \* the logits argument: its sizes (and values at inference)
    instances,          \* the list[Instances] argument, one sequence of rows per image
    img,                \* index of the image the loop of line 132 is at
    gt_classes,         \* line 108
    gt_masks,           \* line 109
    boundary_penalty,   \* line 114
    roi_penalty,        \* line 115
    overlap_penalty,    \* line 116
    published,          \* scalars put to the event storage, in order
    result,             \* how the call ended
    storage,            \* the event storage of the caller, if any, and its iter
    files,              \* the working directory: the Drive folder, the archives written
    boxA, boxB, iou,    \* a call of bb_intersection_over_union
    c, w                \* a call of quad

lossVars == <<pred_mask_logits, instances, img, gt_classes, gt_masks,
              boundary_penalty, roi_penalty, overlap_penalty, published, result>>
iouVars  == <<boxA, boxB, iou>>
quadVars == <<c, w>>
envVars  == <<storage, files>>
vars     == <<pc, lossVars, iouVars, quadVars, envVars>>

----------------------------------------------------------------------------
(* Bounds of the model *)

MaxCoord == 2       \* box coordinates range over 0..MaxCoord
MaxCount == 30      \* quad is applied to -MaxCount..MaxCount
MaxRows == 3        \* instances of one image; the logits have 0..MaxRows+1 rows
MaxSide == 3        \* Hmask and Wmask range over 1..MaxSide
MaxObjects == 3     \* rows and distinct polygons of an image in the overlap calls
MaxMasks == 3       \* rows of the logits at inference

Coords == 0..MaxCoord
Boxes  == Coords \X Coords \X Coords \X Coords

----------------------------------------------------------------------------
(* Numbers *)

Max2(a, b) == IF a >= b THEN a ELSE b
Min2(a, b) == IF a <= b THEN a ELSE b
Abs(a)     == IF a < 0 THEN -a ELSE a

\* A quotient kept exact: num / den.
Ratio(n, d) == [num |-> n, den |-> d]
RatioLess(a, b) == a.num * b.den < b.num * a.den

----------------------------------------------------------------------------
(* bb_intersection_over_union, lines 391-413 *)

bb_intersection_over_union_unclamped(A, B) ==
    LET xA == Max2(A[1], B[1])
        yA == Max2(A[2], B[2])
        xB == Min2(A[3], B[3])
        yB == Min2(A[4], B[4])
        interArea == Abs((xB - xA) * (yB - yA))
        boxAArea == Abs((A[3] - A[1]) * (A[4] - A[2]))
        boxBArea == Abs((B[3] - B[1]) * (B[4] - B[2]))
    IN  IF interArea = 0 THEN Ratio(0, 1)
        ELSE Ratio(interArea, boxAArea + boxBArea - interArea)

bb_intersection_over_union(A, B) ==
    LET xA == Max2(A[1], B[1])
        yA == Max2(A[2], B[2])
        xB == Min2(A[3], B[3])
        yB == Min2(A[4], B[4])
        interArea == Abs(Max2(xB - xA, 0) * Max2(yB - yA, 0))
        boxAArea == Abs((A[3] - A[1]) * (A[4] - A[2]))
        boxBArea == Abs((B[3] - B[1]) * (B[4] - B[2]))
    IN  IF interArea = 0 THEN Ratio(0, 1)
        ELSE Ratio(interArea, boxAArea + boxBArea - interArea)

----------------------------------------------------------------------------
(* quad, lines 423-428.  A value is [kind, val]: the number val, NaN, or   *)
(* the irrational (1 + sqrt(val)) / 2 kept symbolic.                       *)

Num(v)  == [kind |-> "num", val |-> v]
NaN     == [kind |-> "nan", val |-> 0]
Surd(r) == [kind |-> "surd", val |-> r]

\* The integer s with s * s = r, or -1 when r is no perfect square.
ExactRoot(r) ==
    IF \E s \in 0..r : s * s = r THEN CHOOSE s \in 0..r : s * s = r ELSE -1

\* The radicand 1 - 4*c of line 425, c being the -2 * c of line 424.
Radicand(cnt) == LET c2 == -2 * cnt IN 1 - 4 * c2

quad_plain_root(cnt) ==
    LET c2 == cnt
        rad == 1 - 4 * c2
        s == ExactRoot(rad)
    IN  IF rad < 0 THEN NaN
        ELSE IF s < 0 THEN Surd(rad)
        ELSE Num(Max2((1 + s) \div 2, (1 - s) \div 2))

quad_smaller_root(cnt) ==
    LET rad == Radicand(cnt)
        s == ExactRoot(rad)
    IN  IF rad < 0 THEN NaN
        ELSE IF s < 0 THEN Surd(rad)
        ELSE Num(Min2((1 + s) \div 2, (1 - s) \div 2))

quad(cnt) ==
    LET rad == Radicand(cnt)
        s == ExactRoot(rad)     \* torch.sqrt: NaN below zero, no exception
    IN  IF rad < 0 THEN NaN
        ELSE IF s < 0 THEN Surd(rad)
        \* rad = 1 + 8*cnt is odd, so is s: both roots are integers
        ELSE Num(Max2((1 + s) \div 2, (1 - s) \div 2))

----------------------------------------------------------------------------
(* Grids *)

Pix(S) == (0..(S - 1)) \X (0..(S - 1))
Grids(S) == [Pix(S) -> {0, 1}]

\* The pixels of the 3x3 kernel of line 152 centred at p that lie in the image.
Kernel(p, S) ==
    {q \in Pix(S) : Abs(q[1] - p[1]) <= 1 /\ Abs(q[2] - p[2]) <= 1}
Adjacent4(p, q) == Abs(p[1] - q[1]) + Abs(p[2] - q[2]) = 1
OnBorder(p, S) == p[1] = 0 \/ p[2] = 0 \/ p[1] = S - 1 \/ p[2] = S - 1

----------------------------------------------------------------------------
(* The boundary pixels of one ground-truth mask, lines 151-161 *)

\* The background pixels joined to the outside of the image by background.
RECURSIVE FloodOutside(_, _, _)
FloodOutside(seen, m, S) ==
    LET more == {p \in Pix(S) \ seen :
                    m[p] = 0 /\ \E q \in seen : Adjacent4(p, q)}
    IN  IF more = {} THEN seen ELSE FloodOutside(seen \cup more, m, S)

\* cv.findContours(RETR_EXTERNAL) and cv.drawContours(.., 1, -1), lines
\* 153-156: the outer contours drawn filled, which is the mask with the
\* holes of its components closed.
FilledContours(m, S) ==
    LET outside == FloodOutside({p \in Pix(S) : m[p] = 0 /\ OnBorder(p, S)}, m, S)
    IN  [p \in Pix(S) |-> IF m[p] = 1 \/ p \notin outside THEN 1 ELSE 0]

\* cv.dilate and cv.erode with the 3x3 kernel, lines 157-158.  The default
\* border of both leaves the pixels beyond the image out of the max / min.
Dilate(f, S) ==
    [p \in Pix(S) |-> IF \E q \in Kernel(p, S) : f[q] = 1 THEN 1 ELSE 0]
ErodeZeroBorder(f, S) ==
    [p \in Pix(S) |-> IF OnBorder(p, S) THEN 0
                      ELSE IF \A q \in Kernel(p, S) : f[q] = 1 THEN 1 ELSE 0]
Erode(f, S) ==
    [p \in Pix(S) |-> IF \A q \in Kernel(p, S) : f[q] = 1 THEN 1 ELSE 0]

\* np.bitwise_xor, line 159
BitwiseXor(a, b, S) == [p \in Pix(S) |-> (a[p] + b[p]) % 2]

bound_pixels(m, S) ==
    LET background == FilledContours(m, S)
    IN  BitwiseXor(Dilate(background, S), Erode(background, S), S)

BNDRY_WT == 0       \* line 118

\* torch.where(stack == 1, BNDRY_WT, 1) on one mask, lines 216-217
BoundaryWeight(b, S) ==
    [p \in Pix(S) |-> IF b[p] = 1 THEN BNDRY_WT ELSE 1]

----------------------------------------------------------------------------
(* The duplicate-box weights of one image, lines 169-187.  An image is a   *)
(* sequence of rows [gt_classes, gt_boxes, proposal_boxes, poly, gt_mask,  *)
(* cover].                                                                 *)

LexLess(a, b) ==
    \E k \in 1..4 : a[k] < b[k] /\ \A j \in 1..(k - 1) : a[j] = b[j]

\* np.unique(ins_gt_boxes, axis=0): the distinct rows in lexicographic order
RECURSIVE SortBoxes(_)
SortBoxes(bs) ==
    IF bs = {} THEN <<>>
    ELSE LET m == CHOOSE x \in bs : \A y \in bs \ {x} : LexLess(x, y)
         IN  <<m>> \o SortBoxes(bs \ {m})

UniqueGtBoxes(rows) == SortBoxes({rows[k].gt_boxes : k \in 1..Len(rows)})
\* return_counts=True
RoiCount(rows, b) == Cardinality({k \in 1..Len(rows) : rows[k].gt_boxes = b})

\* The loop of lines 177-183 from proposal j on; indices are 0-based as in
\* the code.  best is [iou, box].
RECURSIVE BestBoxFromLastTie(_, _, _, _)
BestBoxFromLastTie(gt_box, rows, j, best) ==
    IF j >= Len(rows) THEN best.box
    ELSE LET v == bb_intersection_over_union(gt_box, rows[j + 1].proposal_boxes)
         IN  IF ~RatioLess(v, best.iou)
             THEN BestBoxFromLastTie(gt_box, rows, j + 1, [iou |-> v, box |-> j])
             ELSE BestBoxFromLastTie(gt_box, rows, j + 1, best)

RECURSIVE BestBoxFrom(_, _, _, _)
BestBoxFrom(gt_box, rows, j, best) ==
    IF j >= Len(rows) THEN best.box
    ELSE LET v == bb_intersection_over_union(gt_box, rows[j + 1].proposal_boxes)
         IN  IF RatioLess(best.iou, v)
             THEN BestBoxFrom(gt_box, rows, j + 1, [iou |-> v, box |-> j])
             ELSE BestBoxFrom(gt_box, rows, j + 1, best)

BestBox(gt_box, rows) ==
    BestBoxFrom(gt_box, rows, 0, [iou |-> Ratio(0, 1), box |-> 0])

\* The loop of line 175 from unique box i on (1-based into the sorted
\* sequence), overwriting img_roi_penalty[best_box] at line 185.
RECURSIVE RoiPenaltyFrom(_, _, _, _)
RoiPenaltyFrom(rows, uniq, i, pen) ==
    IF i > Len(uniq) THEN pen
    ELSE RoiPenaltyFrom(rows, uniq, i + 1,
            [pen EXCEPT ![BestBox(uniq[i], rows) + 1] = RoiCount(rows, uniq[i])])

RoiPenaltyKeepFirst(rows) ==
    LET uniq == UniqueGtBoxes(rows)
        firstFor(r) == CHOOSE i \in 1..Len(uniq) :
                          /\ BestBox(uniq[i], rows) + 1 = r
                          /\ \A j \in 1..(i - 1) : BestBox(uniq[j], rows) + 1 # r
    IN  [r \in 1..Len(rows) |->
            IF \E i \in 1..Len(uniq) : BestBox(uniq[i], rows) + 1 = r
            THEN RoiCount(rows, uniq[firstFor(r)]) ELSE 1]

img_roi_penalty(rows) ==
    RoiPenaltyFrom(rows, UniqueGtBoxes(rows), 1, [r \in 1..Len(rows) |-> 1])

----------------------------------------------------------------------------
(* The raw overlap counts of one image, lines 191-212 *)

\* lines 192-195: the first polygons of the rows, each once, in row order
RECURSIVE DonePolysEveryRow(_, _, _)
DonePolysEveryRow(rows, k, done) ==
    IF k > Len(rows) THEN done
    ELSE DonePolysEveryRow(rows, k + 1, Append(done, rows[k].poly))

RECURSIVE DonePolys(_, _, _)
DonePolys(rows, k, done) ==
    IF k > Len(rows) THEN done
    ELSE IF \E d \in 1..Len(done) : done[d] = rows[k].poly
         THEN DonePolys(rows, k + 1, done)
         ELSE DonePolys(rows, k + 1, Append(done, rows[k].poly))

\* lines 197-200: img_masks[a][r] is polygon done[a] rasterized against the
\* proposal box of row r; rows[r].cover[q] is that raster for polygon q.
img_masks(rows) ==
    LET done == DonePolys(rows, 1, <<>>)
    IN  [a \in 1..Len(done) |-> [r \in 1..Len(rows) |-> rows[r].cover[done[a]]]]

RECURSIVE SumOver(_, _)
SumOver(f, dom) ==
    IF dom = {} THEN 0
    ELSE LET x == CHOOSE y \in dom : TRUE IN f[x] + SumOver(f, dom \ {x})

per_ins_overlap_masks_all_pixels(rows, S) ==
    LET ms == img_masks(rows)
        combs == {ab \in (1..Len(ms)) \X (1..Len(ms)) : ab[1] < ab[2]}
    IN  IF Len(ms) > 1
        THEN [r \in 1..Len(rows) |-> [p \in Pix(S) |->
                SumOver([ab \in combs |-> ms[ab[1]][r][p] * ms[ab[2]][r][p]], combs)]]
        ELSE [r \in 1..Len(rows) |-> [p \in Pix(S) |-> 0]]

\* combinations(img_masks, 2), the products summed, times the row's own mask
per_ins_overlap_masks(rows, S) ==
    LET ms == img_masks(rows)
        combs == {ab \in (1..Len(ms)) \X (1..Len(ms)) : ab[1] < ab[2]}
    IN  IF Len(ms) > 1
        THEN [r \in 1..Len(rows) |-> [p \in Pix(S) |->
                SumOver([ab \in combs |-> ms[ab[1]][r][p] * ms[ab[2]][r][p]], combs)
                    * rows[r].gt_mask[p]]]
        ELSE [r \in 1..Len(rows) |-> [p \in Pix(S) |-> 0]]

----------------------------------------------------------------------------
(* mask_rcnn_loss, lines 82-297 *)

Raised(e)   == [kind |-> "raised", what |-> e]
Returned(v) == [kind |-> "returned", what |-> v]
Running     == [kind |-> "none", what |-> "none"]

\* torch.cat of a list of per-image tensors along dim 0
RECURSIVE Cat(_)
Cat(ts) == IF ts = <<>> THEN <<>> ELSE Head(ts) \o Cat(Tail(ts))

\* Two sizes of one axis broadcast when they are equal or one of them is 1.
Broadcastable(a, b) == a = b \/ a = 1 \/ b = 1
BroadcastSize(a, b) == IF a = 1 THEN b ELSE a

mask_side_len == pred_mask_logits.H                 \* line 105
cls_agnostic_mask == pred_mask_logits.C = 1         \* line 103
total_num_masks == pred_mask_logits.N               \* line 104

ARCHIVE_PERIOD == 6000      \* line 125

\* line 125: the iterations at which the output directory is archived
Archiving == storage.iter > 0 /\ storage.iter % ARCHIVE_PERIOD = 0

\* lines 103-130: the sizes are read and the square assertion is made; then
\* the event storage is fetched, which asserts that the caller has one, and
\* every ARCHIVE_PERIOD iterations ./output/ is zipped to FILENAME.zip and
\* the archive copied to ./drive/My Drive/, which must exist.  (The print of
\* line 124 changes nothing.)
CheckSquare ==
    /\ pc = "start"
    /\ IF pred_mask_logits.H # pred_mask_logits.W
       THEN /\ pc' = "raised"
            /\ result' = Raised("AssertionError")                \* line 106
            /\ files' = files
       ELSE IF ~storage.present
       THEN /\ pc' = "raised"
            /\ result' = Raised("AssertionError")                \* line 122
            /\ files' = files
       ELSE IF Archiving /\ ~files.drive
       THEN /\ pc' = "raised"
            /\ result' = Raised("FileNotFoundError")             \* line 129
            /\ files' = [files EXCEPT !.zip = TRUE]
       ELSE /\ pc' = IF Len(instances) = 0 THEN "aggregate" ELSE "loop"
            /\ result' = result
            /\ files' = IF Archiving
                        THEN [files EXCEPT !.zip = TRUE, !.copy = TRUE]
                        ELSE files
    /\ UNCHANGED <<pred_mask_logits, instances, img, gt_classes, gt_masks,
                   boundary_penalty, roi_penalty, overlap_penalty, published>>
    /\ UNCHANGED <<iouVars, quadVars, storage>>

\* lines 132-212: one iteration of the loop over the images
ImageStep ==
    /\ pc = "loop"
    /\ img <= Len(instances)
    /\ LET rows == instances[img]
           n == Len(rows)
           S == mask_side_len
       IN  IF n = 0                                             \* line 136
           THEN UNCHANGED <<gt_classes, gt_masks, boundary_penalty,
                            roi_penalty, overlap_penalty>>
           ELSE /\ gt_classes' =
                      IF ~cls_agnostic_mask
                      THEN Append(gt_classes, [r \in 1..n |-> rows[r].gt_classes])
                      ELSE gt_classes
                /\ gt_masks' = Append(gt_masks, [r \in 1..n |-> rows[r].gt_mask])
                /\ boundary_penalty' = boundary_penalty \o
                      [r \in 1..n |-> bound_pixels(rows[r].gt_mask, S)]
                /\ roi_penalty' = Append(roi_penalty, img_roi_penalty(rows))
                /\ overlap_penalty' =
                      Append(overlap_penalty, per_ins_overlap_masks(rows, S))
    /\ img' = img + 1
    /\ pc' = IF img + 1 > Len(instances) THEN "aggregate" ELSE "loop"
    /\ UNCHANGED <<pred_mask_logits, instances, published, result>>
    /\ UNCHANGED <<iouVars, quadVars, envVars>>

\* lines 214-243: the three weight volumes, then the empty-batch return and
\* the selection of the logits channel
Aggregate ==
    /\ pc = "aggregate"
    /\ LET S == mask_side_len
           N == total_num_masks
           flatOverlap == Cat(overlap_penalty)
           M == Len(Cat(gt_masks))
       IN  IF Len(boundary_penalty) = 0
           THEN \* torch.stack of an empty list, line 216
                /\ pc' = "raised"
                /\ result' = Raised("RuntimeError")
                /\ UNCHANGED <<pred_mask_logits, gt_classes, gt_masks,
                               boundary_penalty, roi_penalty, overlap_penalty>>
           ELSE /\ boundary_penalty' =
                      [k \in 1..Len(boundary_penalty) |->
                          BoundaryWeight(boundary_penalty[k], S)]
                /\ roi_penalty' = Cat(roi_penalty)
                /\ overlap_penalty' =
                      [k \in 1..Len(flatOverlap) |->
                          [p \in Pix(S) |-> quad(flatOverlap[k][p])]]
                /\ IF Len(gt_masks) = 0                          \* line 233
                   THEN /\ pc' = "returned"
                        /\ result' = Returned("zero")
                        /\ UNCHANGED <<pred_mask_logits, gt_classes, gt_masks>>
                   ELSE /\ gt_masks' = Cat(gt_masks)
                        /\ IF cls_agnostic_mask
                           THEN \* pred_mask_logits[:, 0]
                                /\ pred_mask_logits' =
                                      [pred_mask_logits EXCEPT !.rows = N]
                                /\ gt_classes' = gt_classes
                                /\ pc' = "metrics"
                                /\ result' = result
                           ELSE \* pred_mask_logits[indices, gt_classes]: the
                                \* two index tensors are broadcast together
                                /\ gt_classes' = Cat(gt_classes)
                                /\ IF Broadcastable(N, M)
                                   THEN /\ pred_mask_logits' =
                                              [pred_mask_logits EXCEPT
                                                  !.rows = BroadcastSize(N, M)]
                                        /\ pc' = "metrics"
                                        /\ result' = result
                                   ELSE /\ pred_mask_logits' = pred_mask_logits
                                        /\ pc' = "raised"
                                        /\ result' = Raised("IndexError")
    /\ UNCHANGED <<instances, img, published>>
    /\ UNCHANGED <<iouVars, quadVars, envVars>>

\* lines 245-271: the training accuracy is logged.  The values of the three
\* scalars depend on the logits and are not modelled; their publication is.
Metrics ==
    /\ pc = "metrics"
    /\ LET P == pred_mask_logits.rows
           M == Len(gt_masks)
       IN  IF ~Broadcastable(P, M)
           THEN \* (pred_mask_logits > 0.0) != gt_masks_bool, line 253
                /\ pc' = "raised"
                /\ result' = Raised("RuntimeError")
                /\ published' = published
           ELSE LET scalars == <<"mask_rcnn/accuracy", "mask_rcnn/false_positive",
                                 "mask_rcnn/false_negative">>
                IN  IF ~pred_mask_logits.vis
                    THEN /\ published' = published \o scalars
                         /\ pc' = "loss"
                         /\ result' = result
                    ELSE IF P # M
                    THEN \* torch.cat([pred_masks, gt_masks], axis=2), line 267
                         /\ published' = published \o scalars
                         /\ pc' = "raised"
                         /\ result' = Raised("RuntimeError")
                    ELSE /\ published' = published \o scalars \o
                               [k \in 1..M |-> "image"]
                         /\ pc' = "loss"
                         /\ result' = result
    /\ UNCHANGED <<pred_mask_logits, instances, img, gt_classes, gt_masks,
                   boundary_penalty, roi_penalty, overlap_penalty>>
    /\ UNCHANGED <<iouVars, quadVars, envVars>>

\* lines 278-297: the three weighted losses and their mean.  The value of the
\* loss is not modelled; that one is returned is.
Loss ==
    /\ pc = "loss"
    /\ IF pred_mask_logits.rows # Len(gt_masks)
       THEN \* binary_cross_entropy_with_logits: target size must equal input size
            /\ pc' = "raised"
            /\ result' = Raised("ValueError")
       ELSE /\ pc' = "returned"
            /\ result' = Returned("mean")
    /\ UNCHANGED <<pred_mask_logits, instances, img, gt_classes, gt_masks,
                   boundary_penalty, roi_penalty, overlap_penalty, published>>
    /\ UNCHANGED <<iouVars, quadVars, envVars>>

Next == CheckSquare \/ ImageStep \/ Aggregate \/ Metrics \/ Loss

----------------------------------------------------------------------------
(* The calls of mask_rcnn_loss the specifications start from *)

\* The sequences over S of length lo..hi
SeqsOf(S, lo, hi) == UNION {[1..n -> S] : n \in lo..hi}

Ones(S)  == [p \in Pix(S) |-> 1]
UnitBox  == <<0, 0, 1, 1>>

IdleCalls ==
    /\ boxA = <<0, 0, 0, 0>> /\ boxB = <<0, 0, 0, 0>> /\ iou = Ratio(0, 1)
    /\ c = 0 /\ w = NaN

\* No event storage, no Drive folder
IdleEnv ==
    /\ storage = [present |-> FALSE, iter |-> 0]
    /\ files = [drive |-> FALSE, zip |-> FALSE, copy |-> FALSE]

\* A caller with or without an event storage, at the first iterations or at
\* an archiving one, in a directory with or without the Drive folder
AnyEnv ==
    /\ storage \in {[present |-> FALSE, iter |-> 0]} \cup
                    {[present |-> TRUE, iter |-> t] : t \in {0, 1, ARCHIVE_PERIOD}}
    /\ files \in {[drive |-> d, zip |-> FALSE, copy |-> FALSE] : d \in BOOLEAN}

\* A training loop at an archiving iteration, with or without the Drive folder
ArchivingEnv ==
    /\ storage = [present |-> TRUE, iter |-> ARCHIVE_PERIOD]
    /\ files \in {[drive |-> d, zip |-> FALSE, copy |-> FALSE] : d \in BOOLEAN}

LossStart(logits, batch) ==
    /\ pc = "start"
    /\ pred_mask_logits = logits
    /\ instances = batch
    /\ img = 1
    /\ gt_classes = <<>> /\ gt_masks = <<>>
    /\ boundary_penalty = <<>> /\ roi_penalty = <<>> /\ overlap_penalty = <<>>
    /\ published = <<>>
    /\ result = Running
    /\ IdleCalls

\* Any sizes of the logits, well-formed or not, against batches of up to two
\* images whose rows differ in their class only.
ShapeRows(C, S) ==
    {[gt_classes |-> k, gt_boxes |-> UnitBox, proposal_boxes |-> UnitBox,
      poly |-> 1, gt_mask |-> Ones(S), cover |-> [q \in {1} |-> Ones(S)]] :
        k \in 0..(C - 1)}

Init ==
    \E N \in 0..(MaxRows + 1), C \in 1..2, H \in 1..MaxSide, W \in 1..MaxSide,
       vis \in BOOLEAN :
      \E batch \in SeqsOf(SeqsOf(ShapeRows(C, H), 0, MaxRows), 0, 2) :
        /\ LossStart([N |-> N, C |-> C, H |-> H, W |-> W, vis |-> vis, rows |-> N],
                     batch)
        /\ AnyEnv

Spec == Init /\ [][Next]_vars

\* Well-formed sizes for a batch: one logits row per instance, one channel.
WellFormed(batch, S) ==
    [N |-> Len(Cat(batch)), C |-> 1, H |-> S, W |-> S, vis |-> FALSE,
     rows |-> Len(Cat(batch))]

\* Calls whose rows differ in their ground-truth and proposal boxes: one image
\* of 1..MaxRows rows, alone or behind an image of one row.
RoiGtBoxes   == {<<0, 0, 1, 1>>, <<0, 0, 2, 2>>, <<1, 1, 2, 2>>}
RoiProposals == {<<0, 0, 1, 1>>, <<0, 0, 2, 2>>, <<1, 0, 2, 2>>}
RoiRows ==
    {[gt_classes |-> 0, gt_boxes |-> g, proposal_boxes |-> b,
      poly |-> 1, gt_mask |-> Ones(1), cover |-> [q \in {1} |-> Ones(1)]] :
        g \in RoiGtBoxes, b \in RoiProposals}
LeadImage ==
    <<[gt_classes |-> 0, gt_boxes |-> <<0, 0, 1, 1>>, proposal_boxes |-> <<1, 1, 2, 2>>,
       poly |-> 1, gt_mask |-> Ones(1), cover |-> [q \in {1} |-> Ones(1)]]>>

InitRoi ==
    \E image \in SeqsOf(RoiRows, 1, MaxRows), lead \in BOOLEAN :
        LET batch == IF lead THEN <<LeadImage, image>> ELSE <<image>>
        IN  LossStart(WellFormed(batch, 1), batch) /\ ArchivingEnv

SpecRoi == InitRoi /\ [][Next]_vars

\* Calls whose rows differ in their mask: one image of one row on a grid of
\* side 1..MaxSide, or of two rows on a grid of side 1 or 2.
MaskRow(m) ==
    [gt_classes |-> 0, gt_boxes |-> UnitBox, proposal_boxes |-> UnitBox,
     poly |-> 1, gt_mask |-> m, cover |-> [q \in {1} |-> m]]

InitBoundary ==
    \E S \in 1..MaxSide :
      \E image \in SeqsOf({MaskRow(m) : m \in Grids(S)}, 1, IF S <= 2 THEN 2 ELSE 1) :
        LossStart(WellFormed(<<image>>, S), <<image>>) /\ ArchivingEnv

SpecBoundary == InitBoundary /\ [][Next]_vars

\* Calls whose rows differ in their polygon, proposal box and rasters: one
\* image of 1..MaxObjects rows, alone or behind an image of one row, on a grid
\* of one pixel (the overlap arithmetic is elementwise).  crop_and_resize
\* gives one raster per polygon of the image and proposal box, so rows of one
\* proposal box share their rasters; the raster of a row's first polygon lies
\* within the row's mask, which rasterizes all its polygons.  The polygons
\* are named in the order of their first appearance.
OverlapProposals == {<<0, 0, 1, 1>>, <<0, 0, 2, 1>>}

OverlapRows(q, b, m, cv) ==
    [gt_classes |-> 0, gt_boxes |-> <<0, 0, q, 1>>, proposal_boxes |-> b,
     poly |-> q, gt_mask |-> m, cover |-> cv]

InitOverlap ==
    \E n \in 1..MaxObjects, lead \in BOOLEAN :
      \E polyOf \in [1..n -> 1..MaxObjects] :
        /\ \A r \in 1..n : \A q \in 1..(polyOf[r] - 1) :
              \E e \in 1..(r - 1) : polyOf[e] = q
        /\ \E raster \in [OverlapProposals -> [{polyOf[r] : r \in 1..n} -> Grids(1)]],
              boxOf \in [1..n -> OverlapProposals],
              maskOf \in [1..n -> Grids(1)] :
             /\ \A r \in 1..n : \A p \in Pix(1) :
                   raster[boxOf[r]][polyOf[r]][p] <= maskOf[r][p]
             /\ LET image == [r \in 1..n |->
                                 OverlapRows(polyOf[r], boxOf[r], maskOf[r],
                                             raster[boxOf[r]])]
                    batch == IF lead THEN <<LeadImage, image>> ELSE <<image>>
                IN  LossStart(WellFormed(batch, 1), batch) /\ ArchivingEnv

SpecOverlap == InitOverlap /\ [][Next]_vars

----------------------------------------------------------------------------
(* Calls of the two helper functions on their own *)

IouCall ==
    /\ pc = "iou_call"
    /\ iou' = bb_intersection_over_union(boxA, boxB)
    /\ pc' = "iou_done"
    /\ UNCHANGED <<boxA, boxB, lossVars, quadVars, envVars>>

IdleLoss ==
    /\ pred_mask_logits = [N |-> 0, C |-> 1, H |-> 1, W |-> 1, vis |-> FALSE,
                           rows |-> 0]
    /\ instances = <<>>
    /\ img = 1
    /\ gt_classes = <<>> /\ gt_masks = <<>>
    /\ boundary_penalty = <<>> /\ roi_penalty = <<>> /\ overlap_penalty = <<>>
    /\ published = <<>>
    /\ result = Running

InitIou ==
    /\ pc = "iou_call"
    /\ boxA \in Boxes /\ boxB \in Boxes
    /\ iou = Ratio(0, 1)
    /\ c = 0 /\ w = NaN
    /\ IdleLoss /\ IdleEnv

SpecIou == InitIou /\ [][IouCall]_vars

QuadCall ==
    /\ pc = "quad_call"
    /\ w' = quad(c)
    /\ pc' = "quad_done"
    /\ UNCHANGED <<c, lossVars, iouVars, envVars>>

InitQuad ==
    /\ pc = "quad_call"
    /\ c \in (-MaxCount)..MaxCount
    /\ w = NaN
    /\ boxA = <<0, 0, 0, 0>> /\ boxB = <<0, 0, 0, 0>> /\ iou = Ratio(0, 1)
    /\ IdleLoss /\ IdleEnv

SpecQuad == InitQuad /\ [][QuadCall]_vars

----------------------------------------------------------------------------
(* mask_rcnn_inference, lines 30-68.  The logits carry val[i][k], the value *)
(* of row i (from 1) at channel k (from 0); a mask of Hmask x Wmask logits  *)
(* is stood for by one of them, sigmoid being elementwise.                  *)

LogitVals == {-1, 1}

\* sigmoid, in thousandths
Sigmoid(x) ==
    CASE x = -2 -> 119 [] x = -1 -> 269 [] x = 0 -> 500 [] x = 1 -> 731 [] x = 2 -> 881

\* tensor.split(num_boxes_per_image, dim=0), line 65: consecutive chunks
RECURSIVE Split(_, _)
Split(t, sizes) ==
    IF sizes = <<>> THEN <<>>
    ELSE <<SubSeq(t, 1, Head(sizes))>>
            \o Split(SubSeq(t, Head(sizes) + 1, Len(t)), Tail(sizes))

\* line 61: pred_mask_logits[indices, class_pred], the index tensors broadcast
GatherShifted(val, B, class_pred) ==
    LET T == Len(class_pred)
    IN  [i \in 1..BroadcastSize(B, T) |->
            val[IF B = 1 THEN 1 ELSE i]
               [class_pred[IF T = 1 THEN 1 ELSE (i % T) + 1]]]
Gather(val, B, class_pred) ==
    LET T == Len(class_pred)
    IN  [i \in 1..BroadcastSize(B, T) |->
            val[IF B = 1 THEN 1 ELSE i][class_pred[IF T = 1 THEN 1 ELSE i]]]

Inference ==
    /\ pc = "infer_call"
    /\ LET B == pred_mask_logits.N
           val == pred_mask_logits.val
           class_pred == Cat([i \in 1..Len(instances) |->
                                [r \in 1..Len(instances[i]) |->
                                    instances[i][r].pred_classes]])
           T == Len(class_pred)
           num_boxes_per_image == [i \in 1..Len(instances) |-> Len(instances[i])]
           selectable == pred_mask_logits.C = 1 \/ Broadcastable(B, T)
           selected == IF pred_mask_logits.C = 1
                       THEN [i \in 1..B |-> val[i][0]]
                       ELSE Gather(val, B, class_pred)
           mask_probs_pred == [i \in 1..Len(selected) |-> Sigmoid(selected[i])]
       IN  IF ~selectable
           THEN /\ pc' = "raised"
                /\ result' = Raised("IndexError")
                /\ instances' = instances
           ELSE IF Len(mask_probs_pred) # T
           THEN \* split: the sizes must sum to the number of rows
                /\ pc' = "raised"
                /\ result' = Raised("RuntimeError")
                /\ instances' = instances
           ELSE LET chunks == Split(mask_probs_pred, num_boxes_per_image)
                IN  /\ pc' = "infer_done"
                    /\ result' = Returned("None")
                    /\ instances' =
                          [i \in 1..Len(instances) |->
                              [r \in 1..Len(instances[i]) |->
                                  [pred_classes |-> instances[i][r].pred_classes,
                                   pred_masks |-> chunks[i][r]]]]
    /\ UNCHANGED <<pred_mask_logits, img, gt_classes, gt_masks, boundary_penalty,
                   roi_penalty, overlap_penalty, published>>
    /\ UNCHANGED <<iouVars, quadVars, envVars>>

\* Logits of 0..MaxMasks rows and one or two channels against one or two
\* images of predicted instances, 1:1 with the rows or not.
InitInfer ==
    \E B \in 0..MaxMasks, C \in 1..2 :
      \E val \in [1..B -> [0..(C - 1) -> LogitVals]],
         batch \in SeqsOf(SeqsOf({[pred_classes |-> k] : k \in 0..(C - 1)},
                                 0, MaxMasks), 1, 2) :
        /\ Len(Cat(batch)) <= MaxMasks
        /\ pc = "infer_call"
        /\ pred_mask_logits = [N |-> B, C |-> C, H |-> 1, W |-> 1, val |-> val]
        /\ instances = batch
        /\ img = 1
        /\ gt_classes = <<>> /\ gt_masks = <<>>
        /\ boundary_penalty = <<>> /\ roi_penalty = <<>> /\ overlap_penalty = <<>>
        /\ published = <<>>
        /\ result = Running
        /\ IdleCalls /\ IdleEnv

SpecInfer == InitInfer /\ [][Inference]_vars

----------------------------------------------------------------------------
(* Properties *)

TotalInstances == Len(Cat(instances))
SquareGrid == pred_mask_logits.H = pred_mask_logits.W

\* The caller has an event storage, and the Drive folder is there whenever
\* the iteration is an archiving one: lines 120-130 cannot fail.
TrainingLoopEnv == storage.present /\ (Archiving => files.drive)

\* C1: a training call whose images all have zero instances (and whose
\* logits accordingly have zero rows on a square grid), made inside a
\* training loop whose archiving cannot fail, never raises, and what it
\* returns is the zero loss.
C1_EmptyBatchReturnsZero ==
    (TotalInstances = 0 /\ pred_mask_logits.N = 0 /\ SquareGrid /\ TrainingLoopEnv)
        => /\ pc # "raised"
           /\ pc = "returned" => result = Returned("zero")

\* C7: a call with a non-square mask grid, or with a number of logits rows
\* that differs from the number of ground-truth instances, returns no loss
\* and publishes no metric.
C7_MalformedFailsBeforeMetrics ==
    (~SquareGrid \/ pred_mask_logits.N # TotalInstances)
        => /\ result.kind # "returned"
           /\ published = <<>>

\* The unit cells of the plane a box covers; none when the box is inverted
\* or flat.
Cells(b) ==
    {xy \in Coords \X Coords :
        /\ b[1] <= xy[1] /\ xy[1] + 1 <= b[3]
        /\ b[2] <= xy[2] /\ xy[2] + 1 <= b[4]}

\* C6: bb_intersection_over_union ends with a quotient whose divisor is
\* positive and whose value lies in [0, 1]; it is 0 when the two boxes share
\* no area (one of them covering none included), and the shared area over
\* the area of the union otherwise.
C6_IouWithinUnitInterval ==
    pc = "iou_done" =>
        LET inter == Cells(boxA) \cap Cells(boxB)
            union == Cells(boxA) \cup Cells(boxB)
        IN  /\ iou.den > 0
            /\ 0 <= iou.num /\ iou.num <= iou.den
            /\ inter = {} => iou.num = 0
            /\ inter # {} =>
                  iou.num * Cardinality(union) = iou.den * Cardinality(inter)

\* C6 witness: two boxes that overlap in part were compared
C6_PartialOverlapCompared ==
    /\ pc = "iou_done"
    /\ Cells(boxA) \cap Cells(boxB) # {}
    /\ Cells(boxA) # Cells(boxB)
    /\ 0 < iou.num /\ iou.num < iou.den

\* C10 as claimed: every raw overlap count above 0.25 makes the radicand of
\* quad negative, so the weight is undefined (NaN).
C10_UndefinedAboveQuarter ==
    (pc = "quad_done" /\ 4 * c > 1) => (Radicand(c) < 0 /\ w = NaN)

\* C10 as amended: the radicand of quad is 1 + 8c.  It is negative, and the
\* weight NaN, exactly when c < -1/8; for every count c >= 0, those above
\* 0.25 included, the radicand is at least 1 and the weight is defined.
C10_RadicandIsOnePlusEightC ==
    pc = "quad_done" =>
        /\ Radicand(c) = 1 + 8 * c
        /\ (w = NaN) <=> (8 * c < -1)
        /\ c >= 0 => (Radicand(c) >= 1 /\ w.kind # "nan")

\* C10 witness: quad was applied to a count above 0.25 and gave a number
C10_DefinedAboveQuarter ==
    pc = "quad_done" /\ 4 * c > 1 /\ w.kind = "num" /\ w.val > 1

----------------------------------------------------------------------------
(* Properties of the duplicate-box weights *)

\* The weight volumes hold one tensor per image with instances until line
\* 214, and one row per instance of the batch from there on.
Aggregated == pc \in {"metrics", "loss", "returned"}
HasRows(i) == Len(instances[i]) > 0
Built(i) == HasRows(i) /\ (Aggregated \/ (pc \in {"loop", "aggregate"} /\ i < img))
Offset(i) == Len(Cat(SubSeq(instances, 1, i - 1)))
Slot(i) == Cardinality({j \in 1..i : HasRows(j)})

RoiWeight(i, r) ==
    IF Aggregated THEN roi_penalty[Offset(i) + r] ELSE roi_penalty[Slot(i)][r]

\* Intersection over union as areas counted in unit cells
CellIou(a, b) ==
    LET inter == Cardinality(Cells(a) \cap Cells(b))
        union == Cardinality(Cells(a) \cup Cells(b))
    IN  IF inter = 0 THEN Ratio(0, 1) ELSE Ratio(inter, union)

\* The first row of the image whose proposal has the highest IoU against u
BestRow(u, rows) ==
    CHOOSE j \in 1..Len(rows) :
        /\ \A l \in 1..Len(rows) :
              ~RatioLess(CellIou(u, rows[j].proposal_boxes),
                         CellIou(u, rows[l].proposal_boxes))
        /\ \A l \in 1..(j - 1) :
              RatioLess(CellIou(u, rows[l].proposal_boxes),
                        CellIou(u, rows[j].proposal_boxes))

GtBoxesOf(rows) == {rows[r].gt_boxes : r \in 1..Len(rows)}
Sharing(rows, u) == Cardinality({r \in 1..Len(rows) : rows[r].gt_boxes = u})

\* C2: in an image whose k rows all carry one ground-truth box, the row of
\* the proposal with the highest IoU against that box (the first of them
\* when several tie) has weight k and every other row has weight 1.
C2_SingleObjectBestRowGetsK ==
    \A i \in 1..Len(instances) :
        (Built(i) /\ Cardinality(GtBoxesOf(instances[i])) = 1) =>
            LET rows == instances[i]
                u == rows[1].gt_boxes
            IN  \A r \in 1..Len(rows) :
                    RoiWeight(i, r) = IF r = BestRow(u, rows) THEN Len(rows) ELSE 1

\* C2 witness: three rows of one box, the best proposal not in the first row
C2_DuplicatedObjectWeighted ==
    /\ Aggregated
    /\ \E i \in 1..Len(instances) :
          LET rows == instances[i]
          IN  /\ Len(rows) = 3
              /\ Cardinality(GtBoxesOf(rows)) = 1
              /\ BestRow(rows[1].gt_boxes, rows) = 2
              /\ RoiWeight(i, 2) = 3
              /\ RoiWeight(i, 1) = 1 /\ RoiWeight(i, 3) = 1

\* C9 as claimed: for every unique box u of an image the row of its best
\* match holds the number of instances sharing u, and every row that is no
\* unique box's best match holds 1.
C9_EveryBestRowHoldsItsCount ==
    \A i \in 1..Len(instances) :
        Built(i) =>
            LET rows == instances[i]
            IN  /\ \A u \in GtBoxesOf(rows) :
                      RoiWeight(i, BestRow(u, rows)) = Sharing(rows, u)
                /\ \A r \in 1..Len(rows) :
                      (\A u \in GtBoxesOf(rows) : BestRow(u, rows) # r)
                          => RoiWeight(i, r) = 1

\* C9 as amended: a row that is the best match of one or more unique boxes
\* holds the number of instances sharing the last of them in the sorted
\* order of np.unique (the later box overwrites the earlier), and every row
\* that is no unique box's best match holds 1.
C9_LastUniqueBoxWins ==
    \A i \in 1..Len(instances) :
        Built(i) =>
            LET rows == instances[i]
            IN  \A r \in 1..Len(rows) :
                    LET mine == {u \in GtBoxesOf(rows) : BestRow(u, rows) = r}
                        last == CHOOSE u \in mine :
                                    \A v \in mine \ {u} : LexLess(v, u)
                    IN  RoiWeight(i, r) =
                            IF mine = {} THEN 1 ELSE Sharing(rows, last)

\* C9 witness: two unique boxes shared by different numbers of rows have the
\* same best match, which holds the count of the later box
C9_SharedBestRowOverwritten ==
    /\ Aggregated
    /\ \E i \in 1..Len(instances) :
          LET rows == instances[i]
          IN  \E u, v \in GtBoxesOf(rows) :
                /\ LexLess(u, v)
                /\ BestRow(u, rows) = BestRow(v, rows)
                /\ Sharing(rows, u) # Sharing(rows, v)
                /\ RoiWeight(i, BestRow(u, rows)) = Sharing(rows, v)

----------------------------------------------------------------------------
(* Properties of the boundary and overlap weights *)

FlatMask(i, r) == instances[i][r].gt_mask

\* A pixel is in the boundary band of a mask when its 3x3 neighbourhood
\* meets the filled silhouette without lying within it.
InBand(m, p, S) ==
    LET f == FilledContours(m, S)
    IN  /\ \E q \in Kernel(p, S) : f[q] = 1
        /\ \E q \in Kernel(p, S) : f[q] = 0

\* C5: once the boundary weights are aggregated, the weight of every
\* instance at every pixel is BNDRY_WT = 0 when the pixel is in the boundary
\* band of the instance's ground-truth mask and 1 when it is not.
C5_BoundaryWeightIsBandIndicator ==
    Aggregated =>
        \A i \in 1..Len(instances) : \A r \in 1..Len(instances[i]) :
            \A p \in Pix(mask_side_len) :
                boundary_penalty[Offset(i) + r][p] =
                    IF InBand(FlatMask(i, r), p, mask_side_len) THEN 0 ELSE 1

\* C5 witness: a mask with a foreground pixel of weight 1, a foreground
\* pixel of weight 0 and a background pixel of weight 0
C5_BandAndInteriorWeighted ==
    /\ Aggregated
    /\ \E p, q, o \in Pix(mask_side_len) :
          /\ FlatMask(1, 1)[p] = 1 /\ boundary_penalty[1][p] = 1
          /\ FlatMask(1, 1)[q] = 1 /\ boundary_penalty[1][q] = 0
          /\ FlatMask(1, 1)[o] = 0 /\ boundary_penalty[1][o] = 0

PolysOf(rows) == {rows[r].poly : r \in 1..Len(rows)}
\* The distinct polygons of the image whose raster for row r covers pixel p
Covering(rows, r, p) == {q \in PolysOf(rows) : rows[r].cover[q][p] = 1}

\* C3 as claimed: for an image with zero or one distinct object, the
\* overlap weights given to the loss are 0 at every row and pixel.
C3_OverlapWeightAllZero ==
    Aggregated =>
        \A i \in 1..Len(instances) :
            Cardinality(PolysOf(instances[i])) <= 1 =>
                \A r \in 1..Len(instances[i]) : \A p \in Pix(mask_side_len) :
                    overlap_penalty[Offset(i) + r][p] = Num(0)

\* C3 as amended: for an image with one distinct object, the raw overlap
\* counts are 0 at every row and pixel and the overlap weights given to the
\* loss, quad of the counts, are 1 at every row and pixel.  (An image of no
\* instances has no rows in the volume.)
C3_OverlapCountZeroWeightOne ==
    \A i \in 1..Len(instances) :
        (Built(i) /\ Cardinality(PolysOf(instances[i])) = 1) =>
            \A r \in 1..Len(instances[i]) : \A p \in Pix(mask_side_len) :
                IF Aggregated
                THEN overlap_penalty[Offset(i) + r][p] = Num(1)
                ELSE overlap_penalty[Slot(i)][r][p] = 0

\* C3 witness: two rows of one object, its raster covering the pixel in both
C3_OneObjectTwoRowsWeighted ==
    /\ Aggregated
    /\ \E i \in 1..Len(instances) :
          LET rows == instances[i]
          IN  /\ Len(rows) = 2
              /\ Cardinality(PolysOf(rows)) = 1
              /\ \A r \in 1..2 : \A p \in Pix(mask_side_len) :
                    /\ rows[r].gt_mask[p] = 1
                    /\ rows[r].cover[rows[r].poly][p] = 1
                    /\ overlap_penalty[Offset(i) + r][p] = Num(1)

\* A pixel of a row that lies in the row's own mask and in the rasters of
\* exactly two of the image's distinct objects: its raw overlap count is 1.
CountIsOne(rows, r, p) ==
    rows[r].gt_mask[p] = 1 /\ Cardinality(Covering(rows, r, p)) = 2

\* C4 as claimed: a raw overlap count of 1 gets the weight 1.
C4_CountOneWeightOne ==
    Aggregated =>
        \A i \in 1..Len(instances) : \A r \in 1..Len(instances[i]) :
            \A p \in Pix(mask_side_len) :
                CountIsOne(instances[i], r, p) =>
                    overlap_penalty[Offset(i) + r][p] = Num(1)

\* C4 as amended: a raw overlap count of 1 gets the weight 2, the number of
\* objects overlapping there.
C4_CountOneWeightTwo ==
    \A i \in 1..Len(instances) : \A r \in 1..Len(instances[i]) :
        \A p \in Pix(mask_side_len) :
            (Built(i) /\ CountIsOne(instances[i], r, p)) =>
                IF Aggregated
                THEN overlap_penalty[Offset(i) + r][p] = Num(2)
                ELSE overlap_penalty[Slot(i)][r][p] = 1

\* C4 witness: a pixel of raw count 1 has been given weight 2
C4_TwoObjectsOverlapWeighted ==
    /\ Aggregated
    /\ \E i \in 1..Len(instances) : \E r \in 1..Len(instances[i]) :
          \E p \in Pix(mask_side_len) :
              /\ CountIsOne(instances[i], r, p)
              /\ overlap_penalty[Offset(i) + r][p] = Num(2)

----------------------------------------------------------------------------
(* Properties of mask_rcnn_inference *)

\* C8: with the logits 1:1 with the instances, after mask_rcnn_inference
\* the mask of row r of image i is the sigmoid of logits row Offset(i) + r,
\* the instance's index in the batch, at the channel of its predicted class
\* (channel 0 when there is one channel).
C8_MaskIsSigmoidOfOwnRowAndClass ==
    (pc = "infer_done" /\ pred_mask_logits.N = TotalInstances) =>
        \A i \in 1..Len(instances) : \A r \in 1..Len(instances[i]) :
            LET k == IF pred_mask_logits.C = 1 THEN 0
                     ELSE instances[i][r].pred_classes
            IN  instances[i][r].pred_masks =
                    Sigmoid(pred_mask_logits.val[Offset(i) + r][k])

\* C8 witness: two images, the second starting at row 2 with an instance of
\* class 1 whose two channels differ, masks attached
C8_SecondImageGetsItsRows ==
    /\ pc = "infer_done"
    /\ pred_mask_logits.N = 3 /\ pred_mask_logits.C = 2
    /\ Len(instances) = 2 /\ Len(instances[1]) = 1 /\ Len(instances[2]) = 2
    /\ instances[2][1].pred_classes = 1
    /\ pred_mask_logits.val[2][0] # pred_mask_logits.val[2][1]
    /\ instances[2][1].pred_masks = Sigmoid(pred_mask_logits.val[2][1])

----------------------------------------------------------------------------
(* The overlap weight as a count of objects *)

\* C11: at a pixel of a row covered by the rasters of exactly k of the
\* image's distinct objects, the raw overlap count is k(k-1)/2 inside the
\* row's own mask and 0 outside it, the radicand of quad on that count is
\* the square of an odd number ((2k-1)^2 inside the mask), and the overlap
\* weight is k when the pixel is inside the mask and k >= 2, and 1 otherwise.
C11_WeightIsNumberOfOverlappingObjects ==
    \A i \in 1..Len(instances) : \A r \in 1..Len(instances[i]) :
        \A p \in Pix(mask_side_len) :
            Built(i) =>
                LET rows == instances[i]
                    k == Cardinality(Covering(rows, r, p))
                    inside == rows[r].gt_mask[p] = 1
                    pairs == IF inside THEN (k * (k - 1)) \div 2 ELSE 0
                IN  IF Aggregated
                    THEN overlap_penalty[Offset(i) + r][p] =
                            IF inside /\ k >= 2 THEN Num(k) ELSE Num(1)
                    ELSE LET raw == overlap_penalty[Slot(i)][r][p]
                         IN  /\ raw = pairs
                             /\ 1 + 8 * raw >= 0
                             /\ inside => 1 + 8 * raw = (2 * k - 1) * (2 * k - 1)

\* C11 witness: a pixel inside a row's mask covered by three distinct
\* objects has weight 3, and a pixel covered by two, outside the row's mask,
\* has weight 1
C11_ThreeObjectsOverlapWeighted ==
    /\ Aggregated
    /\ \E i \in 1..Len(instances) : \E r, t \in 1..Len(instances[i]) :
          \E p \in Pix(mask_side_len) :
              /\ instances[i][r].gt_mask[p] = 1
              /\ Cardinality(Covering(instances[i], r, p)) = 3
              /\ overlap_penalty[Offset(i) + r][p] = Num(3)
              /\ instances[i][t].gt_mask[p] = 0
              /\ Cardinality(Covering(instances[i], t, p)) = 2
              /\ overlap_penalty[Offset(i) + t][p] = Num(1)

====
